---- MODULE Spec2Model ----
(***************************************************************************)
(* Model of the Sarus SSH hook (src/src/hooks/ssh/SshHook.cpp).            *)
(*                                                                         *)
(*  SpecKeys   : the host key store; NProcs concurrent invocations of      *)
(*               generate-ssh-keys [--overwrite] / check-user-has-ssh-keys *)
(*               on one user's keystore directory.                         *)
(*  SpecDaemon : one invocation of start-ssh-daemon: the injector pipeline *)
(*               of SshHook::startSshDaemon and the forked child that runs *)
(*               the pre-exec actions and execs dropbear.                  *)
(***************************************************************************)
EXTENDS Integers, Sequences, FiniteSets, TLC

VARIABLES
    \* ---- host key store (SpecKeys) ----
    ksDir,       \* the keystore directory sshKeysDirInHost exists
    ks,          \* entry name -> "absent" | "partial" | "complete"
    lockfile,    \* the lock file of sarus::common::Lockfile exists
    holds,       \* process -> it owns the Lockfile object
    cmd,         \* process -> sub-command it runs
    pc,          \* process -> index of its next statement in GenOrder
    result,      \* process -> "running" | "success" | "error" | "exit_failure"
    seen,        \* process -> keystore as it was when the process tested it
    retKs,       \* process -> keystore as it was when the process returned
    keygenCalls, \* process -> number of dropbearkey invocations it made
    mutLog,      \* keystore mutations done so far: [proc, op, locked]
    ks0,         \* the keystore before any process ran
    \* ---- start-ssh-daemon (SpecDaemon) ----
    hpc,         \* index of the hook's next statement in StartOrder
    outcome,     \* "running" | "success" | "error" of the hook (parent)
    hookLog,     \* statements of startSshDaemon executed so far, in order
    bundle,      \* [uid, gid] of config.json: process.user
    lastCap,     \* highest capability index the kernel knows
    child,       \* the forked child: record, see ChildInit
    childLog,    \* pre-exec actions completed by the child, in order
    execSnap,    \* credentials of the child when it exec'd dropbear
    nsJoined,    \* the hook has joined the namespaces of the container
    uidOfUser,   \* SshHook::uidOfUser
    gidOfUser,   \* SshHook::gidOfUser
    homeDir,     \* home of bundle.uid in the container's /etc/passwd
    artifacts,   \* what the hook has written or mounted in the rootfs
    serverPort,  \* SshHook::serverPort (SERVER_PORT)
    rootfsDir,   \* SshHook::rootfsDir
    sshKeysDirInContainer, \* SshHook::sshKeysDirInContainer
    passwd0,     \* the container's /etc/passwd as the hook found it
    passwd,      \* the container's /etc/passwd
    shellsInRootfs, \* the command interpreters that exist under rootfsDir
    sshMount,    \* [hostBind, mounted]: the container home is the host's,
                 \*   the overlay is mounted on ~/.ssh
    writes,      \* creations under ~/.ssh so far: [what, layer]
    dropbearCommand, \* the argv handed to forkExecWait
    shim,        \* the lines of /usr/bin/ssh in the rootfs
    fileModes,   \* permission bits set on the files written into the rootfs
    sshBefore,   \* what was at /usr/bin/ssh before the shim was written
    \* ---- shared library ABI picker (SpecAbi) ----
    target,      \* the library pickNewestAbiCompatibleLibrary is called on
    candidates,  \* its argument
    picked,      \* what the call returned
    \* ---- CLIArguments (SpecCli) ----
    args,        \* CLIArguments::args of each object: the slots of the array
    pushed,      \* history: the arguments given to each object since its last clear
    assigned,    \* history: the last operator=, with the right operand's value before it
    crashed      \* an operation with undefined behaviour ended the process

keyVars    == <<ksDir, ks, lockfile, holds, cmd, pc, result, seen, retKs,
                keygenCalls, mutLog, ks0>>
daemonVars == <<hpc, outcome, hookLog, bundle, lastCap, child, childLog, execSnap,
                nsJoined, uidOfUser, gidOfUser, homeDir, artifacts>>
fsVars     == <<serverPort, rootfsDir, sshKeysDirInContainer, passwd0, passwd,
                shellsInRootfs, sshMount, writes, dropbearCommand, shim,
                fileModes, sshBefore>>
abiVars    == <<target, candidates, picked>>
cliVars    == <<args, pushed, assigned, crashed>>
vars       == <<keyVars, daemonVars, fsVars, abiVars, cliVars>>

(***************************************************************************)
(* Bounds                                                                  *)
(***************************************************************************)
NProcs == 2
MaxCap == 2
MaxEntries == 2
MaxCand == 4
MaxArgs == 3

\* the CLIArguments objects of a program, and the strings it passes
Objs == {"a", "b"}
Strs == {"-p", "22"}

\* the terminating slot of the array
nullptr == "nullptr"

\* what a read through a dangling pointer may give
Garbage == "garbage"

Procs == 1..NProcs

(***************************************************************************)
(* Host key store                                                          *)
(***************************************************************************)
\* userHasSshKeys(): the files it expects, in the order it tests them
expectedKeyFiles == <<"dropbear_ecdsa_host_key", "id_dropbear", "authorized_keys">>

\* one more directory entry, not written by the hook
OtherEntry == "known_hosts"
Entries == {expectedKeyFiles[i] : i \in 1..Len(expectedKeyFiles)} \cup {OtherEntry}

EmptyKs == [e \in Entries |-> "absent"]

\* boost::filesystem::exists
exists(k, f) == k[f] # "absent"

\* the loop of userHasSshKeys: false at the first expected file that is missing
RECURSIVE userHasSshKeysFrom(_, _)
userHasSshKeysFrom(k, i) ==
    IF i > Len(expectedKeyFiles) THEN TRUE
    ELSE IF ~exists(k, expectedKeyFiles[i]) THEN FALSE
    ELSE userHasSshKeysFrom(k, i + 1)

userHasSshKeysFirstTwo(k) ==
    exists(k, expectedKeyFiles[1]) /\ exists(k, expectedKeyFiles[2])

userHasSshKeys(k) == userHasSshKeysFrom(k, 1)

\* the statements of generateSshKeys from the first that touches the keystore
GenOrderLockLate ==
    <<"createKeysDir", "checkKeys", "removeAll", "lock", "recreateKeysDir",
      "keygenHost", "keygenUser", "authOpen", "authWrite", "return">>

GenOrder ==
    <<"createKeysDir", "lock", "checkKeys", "removeAll", "recreateKeysDir",
      "keygenHost", "keygenUser", "authOpen", "authWrite", "return">>

Done == Len(GenOrder) + 1

IsGen(p) == cmd[p] \in {"generate", "generate_overwrite"}

overwriteFlagInverted(p) == cmd[p] = "generate"

\* the parameter of generateSshKeys: --overwrite was given
overwriteSshKeysIfExist(p) == cmd[p] = "generate_overwrite"

AtGen(p, s) == IsGen(p) /\ pc[p] <= Len(GenOrder) /\ GenOrder[pc[p]] = s

Advance(p) == pc' = [pc EXCEPT ![p] = pc[p] + 1]

Logged(p, op) == mutLog \cup {[proc |-> p, op |-> op, locked |-> holds[p]]}

ReleaseSkipped(p) == UNCHANGED <<lockfile, holds>>

\* ~Lockfile(): leaving generateSshKeys (return or exception) removes the lock
\* file if this process created it
Release(p) ==
    /\ lockfile' = IF holds[p] THEN FALSE ELSE lockfile
    /\ holds' = [holds EXCEPT ![p] = FALSE]

\* an exception leaves generateSshKeys
Throw(p) ==
    /\ Release(p)
    /\ pc' = [pc EXCEPT ![p] = Done]
    /\ result' = [result EXCEPT ![p] = "error"]

\* line 43: createFoldersIfNecessary(sshKeysDirInHost)
CreateKeysDir(p) ==
    /\ AtGen(p, "createKeysDir")
    /\ UNCHANGED <<daemonVars, fsVars, abiVars, cliVars>>
    /\ ksDir' = TRUE
    /\ mutLog' = IF ksDir THEN mutLog ELSE Logged(p, "createKeysDir")
    /\ Advance(p)
    /\ UNCHANGED <<ks, lockfile, holds, cmd, result, seen, retKs, keygenCalls, ks0>>

\* line 44: Lockfile lock{ sshKeysDirInHost }
AcquireLock(p) ==
    /\ AtGen(p, "lock")
    /\ UNCHANGED <<daemonVars, fsVars, abiVars, cliVars>>
    /\ ~lockfile
    /\ lockfile' = TRUE
    /\ holds' = [holds EXCEPT ![p] = TRUE]
    /\ Advance(p)
    /\ UNCHANGED <<ksDir, ks, cmd, result, seen, retKs, keygenCalls, mutLog, ks0>>

\* lines 46-52: keys exist and no --overwrite: message, return
CheckKeys(p) ==
    /\ AtGen(p, "checkKeys")
    /\ UNCHANGED <<daemonVars, fsVars, abiVars, cliVars>>
    /\ seen' = [seen EXCEPT ![p] = ks]
    /\ IF userHasSshKeys(ks) /\ ~overwriteSshKeysIfExist(p)
       THEN /\ Release(p)
            /\ pc' = [pc EXCEPT ![p] = Done]
            /\ result' = [result EXCEPT ![p] = "success"]
            /\ retKs' = [retKs EXCEPT ![p] = ks]
       ELSE /\ Advance(p)
            /\ UNCHANGED <<lockfile, holds, result, retKs>>
    /\ UNCHANGED <<ksDir, ks, cmd, keygenCalls, mutLog, ks0>>

RemoveAllSkipped(p) ==
    /\ AtGen(p, "removeAll")
    /\ UNCHANGED <<daemonVars, fsVars, abiVars, cliVars>>
    /\ Advance(p)
    /\ UNCHANGED <<ksDir, ks, mutLog, lockfile, holds, cmd, result, seen, retKs,
                   keygenCalls, ks0>>

\* line 54: boost::filesystem::remove_all(sshKeysDirInHost)
RemoveAll(p) ==
    /\ AtGen(p, "removeAll")
    /\ UNCHANGED <<daemonVars, fsVars, abiVars, cliVars>>
    /\ ksDir' = FALSE
    /\ ks' = EmptyKs
    /\ mutLog' = IF ksDir THEN Logged(p, "removeAll") ELSE mutLog
    /\ Advance(p)
    /\ UNCHANGED <<lockfile, holds, cmd, result, seen, retKs, keygenCalls, ks0>>

\* line 55: createFoldersIfNecessary(sshKeysDirInHost)
RecreateKeysDir(p) ==
    /\ AtGen(p, "recreateKeysDir")
    /\ UNCHANGED <<daemonVars, fsVars, abiVars, cliVars>>
    /\ ksDir' = TRUE
    /\ mutLog' = IF ksDir THEN mutLog ELSE Logged(p, "recreateKeysDir")
    /\ Advance(p)
    /\ UNCHANGED <<ks, lockfile, holds, cmd, result, seen, retKs, keygenCalls, ks0>>

\* sshKeygen(outputFile): dropbearkey -t ecdsa -f outputFile; executeCommand
\* throws when the command fails
sshKeygen(p, s, f) ==
    /\ AtGen(p, s)
    /\ UNCHANGED <<daemonVars, fsVars, abiVars, cliVars>>
    /\ keygenCalls' = [keygenCalls EXCEPT ![p] = keygenCalls[p] + 1]
    /\ \/ /\ ksDir
          /\ ks' = [ks EXCEPT ![f] = "complete"]
          /\ mutLog' = Logged(p, s)
          /\ Advance(p)
          /\ UNCHANGED <<lockfile, holds, result>>
       \/ /\ Throw(p)
          /\ UNCHANGED <<ks, mutLog>>
    /\ UNCHANGED <<ksDir, cmd, seen, retKs, ks0>>

\* line 56
KeygenHost(p) == sshKeygen(p, "keygenHost", "dropbear_ecdsa_host_key")

\* line 57
KeygenUser(p) == sshKeygen(p, "keygenUser", "id_dropbear")

\* line 58, generateAuthorizedKeys up to the std::ofstream constructor:
\* dropbearkey -y prints the public key (throws when it fails or when no line
\* matches ^(ecdsa-.*)$), then the file is created empty
AuthOpen(p) ==
    /\ AtGen(p, "authOpen")
    /\ UNCHANGED <<daemonVars, fsVars, abiVars, cliVars>>
    /\ keygenCalls' = [keygenCalls EXCEPT ![p] = keygenCalls[p] + 1]
    /\ \/ /\ ksDir
          /\ exists(ks, "id_dropbear")
          /\ ks' = [ks EXCEPT !["authorized_keys"] = "partial"]
          /\ mutLog' = Logged(p, "authOpen")
          /\ Advance(p)
          /\ UNCHANGED <<lockfile, holds, result>>
       \/ /\ Throw(p)
          /\ UNCHANGED <<ks, mutLog>>
    /\ UNCHANGED <<ksDir, cmd, seen, retKs, ks0>>

\* generateAuthorizedKeys: ofs << matches[1] << std::endl; ofs.close()
AuthWrite(p) ==
    /\ AtGen(p, "authWrite")
    /\ UNCHANGED <<daemonVars, fsVars, abiVars, cliVars>>
    /\ ks' = [ks EXCEPT !["authorized_keys"] =
                 IF exists(ks, "authorized_keys") THEN "complete" ELSE @]
    /\ mutLog' = Logged(p, "authWrite")
    /\ Advance(p)
    /\ UNCHANGED <<ksDir, lockfile, holds, cmd, result, seen, retKs, keygenCalls, ks0>>

\* lines 60-62: success message, return
GenReturn(p) ==
    /\ AtGen(p, "return")
    /\ UNCHANGED <<daemonVars, fsVars, abiVars, cliVars>>
    /\ Release(p)
    /\ pc' = [pc EXCEPT ![p] = Done]
    /\ result' = [result EXCEPT ![p] = "success"]
    /\ retKs' = [retKs EXCEPT ![p] = ks]
    /\ UNCHANGED <<ksDir, ks, cmd, seen, keygenCalls, mutLog, ks0>>

\* checkUserHasSshKeys: exit(EXIT_FAILURE) when a key file is missing
checkUserHasSshKeys(p) ==
    /\ cmd[p] = "check"
    /\ pc[p] = 1
    /\ UNCHANGED <<daemonVars, fsVars, abiVars, cliVars>>
    /\ seen' = [seen EXCEPT ![p] = ks]
    /\ retKs' = [retKs EXCEPT ![p] = ks]
    /\ result' = [result EXCEPT ![p] =
                     IF ~userHasSshKeys(ks) THEN "exit_failure" ELSE "success"]
    /\ pc' = [pc EXCEPT ![p] = Done]
    /\ UNCHANGED <<ksDir, ks, lockfile, holds, cmd, keygenCalls, mutLog, ks0>>

NextKeys ==
    \E p \in Procs :
        \/ CreateKeysDir(p)
        \/ AcquireLock(p)
        \/ CheckKeys(p)
        \/ RemoveAll(p)
        \/ RecreateKeysDir(p)
        \/ KeygenHost(p)
        \/ KeygenUser(p)
        \/ AuthOpen(p)
        \/ AuthWrite(p)
        \/ GenReturn(p)
        \/ checkUserHasSshKeys(p)

(***************************************************************************)
(* start-ssh-daemon                                                        *)
(***************************************************************************)
\* a path: absolute or not, and its components
NoPath == [abs |-> FALSE, comps |-> <<>>]

\* values of SERVER_PORT
Ports == {22, 2222}

UIDs == {1000, 2000}
GIDs == {1000, 3000}
Homes == {"/home/alice", "/root", "", "/nonexistent"}

\* the components of a home directory of /etc/passwd
HomePath(h) ==
    CASE h = "/home/alice"  -> [abs |-> TRUE, comps |-> <<"home", "alice">>]
      [] h = "/root"        -> [abs |-> TRUE, comps |-> <<"root">>]
      [] h = "/nonexistent" -> [abs |-> TRUE, comps |-> <<"nonexistent">>]
      [] OTHER              -> NoPath

\* boost::filesystem::operator/ : the right path appended to the left one
Join(a, b) ==
    IF a = NoPath THEN b ELSE [abs |-> a.abs, comps |-> a.comps \o b.comps]

Rel(comps) == [abs |-> FALSE, comps |-> comps]

\* the bundle directory of the state read from stdin
bundleDir == [abs |-> TRUE, comps |-> <<"run", "bundle">>]

\* values of root.path in config.json
RootPaths == {[abs |-> TRUE, comps |-> <<"var", "rootfs">>], Rel(<<"rootfs">>)}

\* command interpreters an /etc/passwd entry may name
Shells == {"/bin/bash", "/bin/zsh"}

\* which of them exist under rootfsDir
ShellSets == {{}, {"/bin/bash"}, {"/bin/bash", "/bin/zsh"}}

\* line i of an /etc/passwd, as its colon-separated fields; the seventh field
\* is there when sh is not empty
PasswdLine(i, sh) == <<i, "x", 999 + i, 100, "", <<"home", i>>>> \o sh

\* the /etc/passwd files of up to MaxEntries lines
PasswdFiles ==
    UNION {{[i \in 1..n |-> PasswdLine(i, f[i])] :
               f \in [1..n -> {<<>>} \cup {<<sh>> : sh \in Shells}]} :
           n \in 0..MaxEntries}

\* PasswdDB: a line read into an entry; userCommandInterpreter is optional
ParseEntry(line) ==
    [loginName |-> line[1], encryptedPassword |-> line[2], uid |-> line[3],
     gid |-> line[4], userNameOrCommentField |-> line[5],
     userHomeDirectory |-> line[6],
     userCommandInterpreter |-> SubSeq(line, 7, Len(line))]

\* PasswdDB::write: an entry written as a line
WriteEntry(e) ==
    <<e.loginName, e.encryptedPassword, e.uid, e.gid, e.userNameOrCommentField,
      e.userHomeDirectory>> \o e.userCommandInterpreter

PatchEntryAlways(e, present) ==
    IF e.userCommandInterpreter # <<>>
    THEN [e EXCEPT !.userCommandInterpreter = <<"/bin/sh">>]
    ELSE e

\* lines 293-296: an interpreter that is set and does not exist under rootfsDir
\* becomes /bin/sh
PatchEntry(e, present) ==
    IF e.userCommandInterpreter # <<>> /\ e.userCommandInterpreter[1] \notin present
    THEN [e EXCEPT !.userCommandInterpreter = <<"/bin/sh">>]
    ELSE e

\* lines 291-298: read, patch every entry, write
PatchedPasswd(file, present) ==
    [i \in 1..Len(file) |-> WriteEntry(PatchEntry(ParseEntry(file[i]), present))]

\* the files whose permissions the hook sets
ModeFiles ==
    {"/opt/oci-hooks/dropbear/environment", "/etc/profile.d/ssh-hook.sh",
     "/usr/bin/ssh"}

\* boost::filesystem::perms: the permission bits of one flag, each a pair
\* of class (u, g, o) and right (r, w, x)
PermBits(flag) ==
    CASE flag = "owner_all"    -> {<<"u", "r">>, <<"u", "w">>, <<"u", "x">>}
      [] flag = "owner_read"   -> {<<"u", "r">>}
      [] flag = "owner_write"  -> {<<"u", "w">>}
      [] flag = "group_read"   -> {<<"g", "r">>}
      [] flag = "group_exe"    -> {<<"g", "x">>}
      [] flag = "others_read"  -> {<<"o", "r">>}
      [] flag = "others_exe"   -> {<<"o", "x">>}

\* flags joined with operator|
Perms(flags) == UNION {PermBits(f) : f \in flags}

\* line 83
dropbearRelativeDirInContainer ==
    [abs |-> TRUE, comps |-> <<"opt", "oci-hooks", "dropbear">>]

RECURSIVE to_string(_)
\* std::to_string(int) and operator<<(int): the decimal digits of n >= 0
to_string(n) == IF n < 10 THEN <<n>> ELSE Append(to_string(n \div 10), n % 10)

RECURSIVE CommonPrefixLen(_, _)
CommonPrefixLen(a, b) ==
    IF a # <<>> /\ b # <<>> /\ Head(a) = Head(b)
    THEN 1 + CommonPrefixLen(Tail(a), Tail(b))
    ELSE 0

\* boost::filesystem::relative(p, base), for paths without symlinks: drop
\* the common prefix, climb out of what is left of base, descend into what
\* is left of p
LexicallyRelative(p, base) ==
    LET k == CommonPrefixLen(p.comps, base.comps)
    IN Rel([i \in 1..(Len(base.comps) - k) |-> ".."]
            \o SubSeq(p.comps, k + 1, Len(p.comps)))

sshKeysPathHostSide == sshKeysDirInContainer

\* line 397
sshKeysPathWithinContainer ==
    Join([abs |-> TRUE, comps |-> <<>>],
         LexicallyRelative(sshKeysDirInContainer, rootfsDir))

\* lines 399-404: the CLIArguments handed to forkExecWait
DropbearArgv ==
    <<Join(dropbearRelativeDirInContainer, Rel(<<"bin", "dropbear">>)),
      "-E",
      "-r", Join(sshKeysPathWithinContainer, Rel(<<"dropbear_ecdsa_host_key">>)),
      "-p", to_string(serverPort)>>

\* lines 274-275: the two lines written to /usr/bin/ssh, as shell words
ShimScript ==
    <<<<"#!/bin/sh">>,
      <<Join(dropbearRelativeDirInContainer, Rel(<<"bin", "dbclient">>)),
        "-y", "-p", to_string(serverPort), "$*">>>>

\* the statements of startSshDaemon after the environment is read (lines 86-99)
StartOrder ==
    <<"parseStateOfContainerFromStdin", "enterNamespacesOfProcess",
      "parseConfigJSONOfBundle", "getUsername", "getSshKeysDirInContainer",
      "copyDropbearIntoContainer", "setupSshKeysDirInContainer",
      "copySshKeysIntoContainer", "patchPasswdIfNecessary",
      "createEnvironmentFile", "createEtcProfileModule",
      "startSshDaemonInContainer", "createSshExecutableInContainer">>

PreExecOrderUidFirst ==
    <<"chroot", "capDrop", "setgroups", "setresuid", "setresgid", "noNewPrivs">>

\* the statements of the preExecActions lambda (lines 349-395)
PreExecOrder ==
    <<"chroot", "capDrop", "setgroups", "setresgid", "setresuid", "noNewPrivs">>

NoSnap == [taken |-> FALSE]

\* the hook runs as root in the host's root directory: the child that fork()
\* returns has root's credentials and the full capability bounding set
ChildInit ==
    [st |-> "preexec", idx |-> 1, capIdx |-> 0, root |-> "host",
     caps |-> 0..lastCap, groups |-> {0}, gid |-> <<0, 0, 0>>,
     uid |-> <<0, 0, 0>>, nnp |-> 0, status |-> 0, failedAt |-> "none",
     dropped |-> <<>>]

NoChild == [ChildInit EXCEPT !.st = "none"]

At(s) == outcome = "running" /\ hpc <= Len(StartOrder) /\ StartOrder[hpc] = s

Proceed(s) ==
    /\ UNCHANGED <<keyVars, abiVars, cliVars>>
    /\ hpc' = hpc + 1
    /\ hookLog' = Append(hookLog, s)
    /\ outcome' = outcome

\* SARUS_THROW_ERROR / exit(EXIT_FAILURE) in the hook process: nothing after it runs
HookThrow ==
    /\ outcome' = "error"
    /\ UNCHANGED <<keyVars, fsVars, abiVars, cliVars>>
    /\ UNCHANGED <<hpc, hookLog, bundle, lastCap, child, childLog, execSnap,
                   nsJoined, uidOfUser, gidOfUser, homeDir, artifacts>>

\* line 86
ParseState ==
    /\ At("parseStateOfContainerFromStdin")
    /\ \/ /\ Proceed("parseStateOfContainerFromStdin")
          /\ UNCHANGED fsVars
          /\ UNCHANGED <<bundle, lastCap, child, childLog, execSnap, nsJoined,
                         uidOfUser, gidOfUser, homeDir, artifacts>>
       \/ HookThrow

\* line 87
EnterNamespaces ==
    /\ At("enterNamespacesOfProcess")
    /\ \/ /\ Proceed("enterNamespacesOfProcess")
          /\ UNCHANGED fsVars
          /\ nsJoined' = TRUE
          /\ UNCHANGED <<bundle, lastCap, child, childLog, execSnap,
                         uidOfUser, gidOfUser, homeDir, artifacts>>
       \/ HookThrow

\* line 88, lines 104-127
parseConfigJSONOfBundle ==
    /\ At("parseConfigJSONOfBundle")
    /\ \/ /\ Proceed("parseConfigJSONOfBundle")
          /\ \E root \in RootPaths :
                rootfsDir' = IF root.abs THEN root ELSE Join(bundleDir, root)
          /\ UNCHANGED <<serverPort, sshKeysDirInContainer, passwd0, passwd,
                         shellsInRootfs, sshMount, writes, dropbearCommand, shim,
                fileModes, sshBefore>>
          /\ uidOfUser' = bundle.uid
          /\ gidOfUser' = bundle.gid
          /\ UNCHANGED <<bundle, lastCap, child, childLog, execSnap, nsJoined,
                         homeDir, artifacts>>
       \/ HookThrow

\* lines 89-90
GetUsername ==
    /\ At("getUsername")
    /\ \/ /\ Proceed("getUsername")
          /\ UNCHANGED fsVars
          /\ UNCHANGED <<bundle, lastCap, child, childLog, execSnap, nsJoined,
                         uidOfUser, gidOfUser, homeDir, artifacts>>
       \/ HookThrow

\* line 91, lines 153-169
getSshKeysDirInContainerNoCheck ==
    /\ At("getSshKeysDirInContainer")
    /\ Proceed("getSshKeysDirInContainer")
    /\ sshKeysDirInContainer' =
          Join(Join(rootfsDir, HomePath(homeDir)), Rel(<<".ssh">>))
    /\ UNCHANGED <<serverPort, rootfsDir, passwd0, passwd, shellsInRootfs,
                   sshMount, writes, dropbearCommand, shim,
                fileModes, sshBefore>>
    /\ UNCHANGED <<bundle, lastCap, child, childLog, execSnap, nsJoined,
                   uidOfUser, gidOfUser, homeDir, artifacts>>

getSshKeysDirInContainer ==
    /\ At("getSshKeysDirInContainer")
    /\ IF homeDir = "" \/ homeDir = "/nonexistent"
       THEN HookThrow
       ELSE /\ Proceed("getSshKeysDirInContainer")
            /\ sshKeysDirInContainer' =
                  Join(Join(rootfsDir, HomePath(homeDir)), Rel(<<".ssh">>))
            /\ UNCHANGED <<serverPort, rootfsDir, passwd0, passwd, shellsInRootfs,
                           sshMount, writes, dropbearCommand, shim,
                fileModes, sshBefore>>
            /\ UNCHANGED <<bundle, lastCap, child, childLog, execSnap, nsJoined,
                           uidOfUser, gidOfUser, homeDir, artifacts>>

\* a statement of lines 92-97 or 99 that writes `made` into the rootfs
Inject(s, made) ==
    /\ At(s)
    /\ \/ /\ Proceed(s)
          /\ UNCHANGED fsVars
          /\ artifacts' = artifacts \cup made
          /\ UNCHANGED <<bundle, lastCap, child, childLog, execSnap, nsJoined,
                         uidOfUser, gidOfUser, homeDir>>
       \/ HookThrow

\* line 92
copyDropbearIntoContainer == Inject("copyDropbearIntoContainer", {"dropbear_bin"})
\* where a write to sshKeysDirInContainer lands: in the overlay's upperdir
\* once the overlay is mounted on it, in the directory underneath before
Layer == IF sshMount.mounted THEN "upper" ELSE "underlying"

\* a statement that changed the file system and then threw
ThrowAfterWrites ==
    /\ outcome' = "error"
    /\ UNCHANGED <<keyVars, abiVars, cliVars>>
    /\ UNCHANGED <<hpc, hookLog, bundle, lastCap, child, childLog, execSnap,
                   nsJoined, uidOfUser, gidOfUser, homeDir, artifacts>>

\* line 93, lines 221-246: createFoldersIfNecessary(sshKeysDirInContainer)
\* (line 231), then mountOverlayfs on it (line 243). The home may be a bind
\* mount of the host's, and ~/.ssh may be there already.
setupSshKeysDirInContainer ==
    /\ At("setupSshKeysDirInContainer")
    /\ \E hostBind \in BOOLEAN, sshDirExists \in BOOLEAN :
         LET made == IF sshDirExists THEN {}
                     ELSE {[what |-> ".ssh", layer |-> Layer]}
         IN \/ HookThrow
            \/ /\ ThrowAfterWrites
               /\ sshMount' = [hostBind |-> hostBind, mounted |-> FALSE]
               /\ writes' = writes \cup made
               /\ UNCHANGED <<serverPort, rootfsDir, sshKeysDirInContainer, passwd0,
                              passwd, shellsInRootfs, dropbearCommand, shim,
                fileModes, sshBefore>>
            \/ /\ Proceed("setupSshKeysDirInContainer")
               /\ sshMount' = [hostBind |-> hostBind, mounted |-> TRUE]
               /\ writes' = writes \cup made
               /\ artifacts' = artifacts \cup {"ssh_dir", "overlay"}
               /\ UNCHANGED <<serverPort, rootfsDir, sshKeysDirInContainer, passwd0,
                              passwd, shellsInRootfs, dropbearCommand, shim,
                fileModes, sshBefore>>
               /\ UNCHANGED <<bundle, lastCap, child, childLog, execSnap, nsJoined,
                              uidOfUser, gidOfUser, homeDir>>

\* the first n files of lines 252-262 copied into sshKeysDirInContainer
Copied(n) == {[what |-> expectedKeyFiles[i], layer |-> Layer] : i \in 1..n}

\* line 94, lines 248-265: three copyFile calls, each of which may throw
copySshKeysIntoContainer ==
    /\ At("copySshKeysIntoContainer")
    /\ \/ \E n \in 0..(Len(expectedKeyFiles) - 1) :
            /\ ThrowAfterWrites
            /\ writes' = writes \cup Copied(n)
            /\ UNCHANGED <<serverPort, rootfsDir, sshKeysDirInContainer, passwd0,
                           passwd, shellsInRootfs, sshMount, dropbearCommand, shim,
                fileModes, sshBefore>>
       \/ /\ Proceed("copySshKeysIntoContainer")
          /\ writes' = writes \cup Copied(Len(expectedKeyFiles))
          /\ artifacts' = artifacts \cup {"keys"}
          /\ UNCHANGED <<serverPort, rootfsDir, sshKeysDirInContainer, passwd0,
                         passwd, shellsInRootfs, sshMount, dropbearCommand, shim,
                fileModes, sshBefore>>
          /\ UNCHANGED <<bundle, lastCap, child, childLog, execSnap, nsJoined,
                         uidOfUser, gidOfUser, homeDir>>
\* line 95, lines 287-301
patchPasswdIfNecessary ==
    /\ At("patchPasswdIfNecessary")
    /\ \/ /\ Proceed("patchPasswdIfNecessary")
          /\ artifacts' = artifacts \cup {"passwd"}
          /\ \E file \in PasswdFiles, present \in ShellSets :
                /\ passwd0' = file
                /\ shellsInRootfs' = present
                /\ passwd' = PatchedPasswd(file, present)
          /\ UNCHANGED <<serverPort, rootfsDir, sshKeysDirInContainer, sshMount,
                         writes, dropbearCommand, shim,
                fileModes, sshBefore>>
          /\ UNCHANGED <<bundle, lastCap, child, childLog, execSnap, nsJoined,
                         uidOfUser, gidOfUser, homeDir>>
       \/ HookThrow
\* a statement of lines 96-97: a file written, then its permissions set
WriteWithPerms(s, made, file, flags) ==
    /\ At(s)
    /\ \/ /\ Proceed(s)
          /\ artifacts' = artifacts \cup made
          /\ fileModes' = [fileModes EXCEPT ![file] = Perms(flags)]
          /\ UNCHANGED <<serverPort, rootfsDir, sshKeysDirInContainer, passwd0,
                         passwd, shellsInRootfs, sshMount, writes, dropbearCommand,
                         shim, sshBefore>>
          /\ UNCHANGED <<bundle, lastCap, child, childLog, execSnap, nsJoined,
                         uidOfUser, gidOfUser, homeDir>>
       \/ HookThrow

\* line 96, lines 303-324; the permissions are those of lines 318-321
createEnvironmentFile ==
    WriteWithPerms("createEnvironmentFile", {"environment"},
                   "/opt/oci-hooks/dropbear/environment",
                   {"owner_all", "group_read", "others_read"})

\* line 97, lines 326-344; the permissions are those of lines 338-341
createEtcProfileModule ==
    WriteWithPerms("createEtcProfileModule", {"profile"},
                   "/etc/profile.d/ssh-hook.sh",
                   {"owner_read", "owner_write", "group_read", "others_read"})
\* line 99, lines 267-285
createSshExecutableInContainer ==
    /\ At("createSshExecutableInContainer")
    /\ \/ /\ Proceed("createSshExecutableInContainer")
          /\ \E before \in {"absent", "file", "directory"} :
                \* line 270: remove_all, whatever is there
                sshBefore' = before
          /\ shim' = ShimScript
          /\ fileModes' = [fileModes EXCEPT !["/usr/bin/ssh"] =
                              Perms({"owner_all", "group_read", "group_exe",
                                     "others_read", "others_exe"})]
          /\ artifacts' = artifacts \cup {"ssh_shim"}
          /\ UNCHANGED <<serverPort, rootfsDir, sshKeysDirInContainer, passwd0,
                         passwd, shellsInRootfs, sshMount, writes, dropbearCommand>>
          /\ UNCHANGED <<bundle, lastCap, child, childLog, execSnap, nsJoined,
                         uidOfUser, gidOfUser, homeDir>>
       \/ HookThrow

HookFrame == UNCHANGED <<keyVars, fsVars, abiVars, cliVars, hpc, outcome, hookLog, bundle, lastCap, nsJoined,
                         uidOfUser, gidOfUser, homeDir, artifacts>>

\* lines 397-405: the command is built, then forkExecWait fork()s
Fork ==
    /\ At("startSshDaemonInContainer")
    /\ child.st = "none"
    /\ \/ /\ child' = ChildInit
          /\ dropbearCommand' = DropbearArgv
          /\ UNCHANGED <<serverPort, rootfsDir, sshKeysDirInContainer, passwd0,
                         passwd, shellsInRootfs, sshMount, writes, shim,
                         fileModes, sshBefore>>
          /\ UNCHANGED <<keyVars, abiVars, cliVars, hpc, outcome, hookLog, bundle, lastCap,
                         nsJoined, uidOfUser, gidOfUser, homeDir, artifacts>>
          /\ UNCHANGED <<childLog, execSnap>>
       \/ HookThrow

InPreExec(s) ==
    /\ child.st = "preexec"
    /\ child.idx <= Len(PreExecOrder)
    /\ PreExecOrder[child.idx] = s

\* a pre-exec action returned normally
StepDone(c, s) ==
    /\ child' = [c EXCEPT !.idx = c.idx + 1]
    /\ childLog' = Append(childLog, s)

\* SARUS_THROW_ERROR in the child: the exception leaves preExecActions and
\* forkExecWait, and the child process ends with a failure status
ChildThrow(s) ==
    /\ child' = [child EXCEPT !.st = "exited", !.status = 1, !.failedAt = s]
    /\ UNCHANGED childLog

\* lines 350-354
Chroot ==
    /\ InPreExec("chroot")
    /\ \/ StepDone([child EXCEPT !.root = "rootfs"], "chroot")
       \/ ChildThrow("chroot")
    /\ HookFrame /\ UNCHANGED execSnap

CapDropBreakOnAnyError ==
    /\ InPreExec("capDrop")
    /\ IF child.capIdx > lastCap
       THEN StepDone(child, "capDrop")
       ELSE \/ /\ child' = [child EXCEPT !.caps = @ \ {child.capIdx},
                                         !.dropped = Append(@, child.capIdx),
                                         !.capIdx = @ + 1]
               /\ UNCHANGED childLog
            \/ StepDone(child, "capDrop")
    /\ HookFrame /\ UNCHANGED execSnap

\* lines 359-370: one iteration of the loop over capIdx
CapDrop ==
    /\ InPreExec("capDrop")
    /\ IF child.capIdx > lastCap
       THEN \* EINVAL: reached end of valid capabilities
            StepDone(child, "capDrop")
       ELSE \/ /\ child' = [child EXCEPT !.caps = @ \ {child.capIdx},
                                         !.dropped = Append(@, child.capIdx),
                                         !.capIdx = @ + 1]
               /\ UNCHANGED childLog
            \/ ChildThrow("capDrop")
    /\ HookFrame /\ UNCHANGED execSnap

SetgroupsUnchecked ==
    /\ InPreExec("setgroups")
    /\ \/ StepDone([child EXCEPT !.groups = {}], "setgroups")
       \/ StepDone([child EXCEPT !.failedAt = "setgroups"], "setgroups")
    /\ HookFrame /\ UNCHANGED execSnap

\* lines 373-376
Setgroups ==
    /\ InPreExec("setgroups")
    /\ \/ StepDone([child EXCEPT !.groups = {}], "setgroups")
       \/ ChildThrow("setgroups")
    /\ HookFrame /\ UNCHANGED execSnap

\* lines 379-382
Setresgid ==
    /\ InPreExec("setresgid")
    /\ \/ StepDone([child EXCEPT !.gid = <<gidOfUser, gidOfUser, gidOfUser>>],
                   "setresgid")
       \/ ChildThrow("setresgid")
    /\ HookFrame /\ UNCHANGED execSnap

SeteuidOnly ==
    /\ InPreExec("setresuid")
    /\ \/ StepDone([child EXCEPT !.uid = <<child.uid[1], uidOfUser, child.uid[3]>>],
                   "setresuid")
       \/ ChildThrow("setresuid")
    /\ HookFrame /\ UNCHANGED execSnap

\* lines 385-388
Setresuid ==
    /\ InPreExec("setresuid")
    /\ \/ StepDone([child EXCEPT !.uid = <<uidOfUser, uidOfUser, uidOfUser>>],
                   "setresuid")
       \/ ChildThrow("setresuid")
    /\ HookFrame /\ UNCHANGED execSnap

\* lines 391-394
SetNoNewPrivs ==
    /\ InPreExec("noNewPrivs")
    /\ \/ StepDone([child EXCEPT !.nnp = 1], "noNewPrivs")
       \/ ChildThrow("noNewPrivs")
    /\ HookFrame /\ UNCHANGED execSnap

\* forkExecWait: execvp(dropbear) once preExecActions has returned
Exec ==
    /\ child.st = "preexec"
    /\ child.idx > Len(PreExecOrder)
    /\ \/ /\ child' = [child EXCEPT !.st = "exec"]
          /\ execSnap' = [taken |-> TRUE, uid |-> child.uid, gid |-> child.gid,
                          groups |-> child.groups, caps |-> child.caps,
                          nnp |-> child.nnp, root |-> child.root,
                          argv |-> dropbearCommand]
       \/ /\ child' = [child EXCEPT !.st = "exited", !.status = 1]
          /\ UNCHANGED execSnap
    /\ HookFrame /\ UNCHANGED childLog

\* dropbear daemonizes (status 0) or fails to start
DropbearExit ==
    /\ child.st = "exec"
    /\ \E st \in {0, 1} : child' = [child EXCEPT !.st = "exited", !.status = st]
    /\ HookFrame /\ UNCHANGED <<childLog, execSnap>>

WaitIgnoringStatus ==
    /\ At("startSshDaemonInContainer")
    /\ child.st = "exited"
    /\ Proceed("startSshDaemonInContainer")
    /\ UNCHANGED fsVars
    /\ UNCHANGED <<bundle, lastCap, child, childLog, execSnap, nsJoined,
                   uidOfUser, gidOfUser, homeDir, artifacts>>

\* lines 405-412: the status forkExecWait returns
Wait ==
    /\ At("startSshDaemonInContainer")
    /\ child.st = "exited"
    /\ IF child.status # 0
       THEN HookThrow
       ELSE /\ Proceed("startSshDaemonInContainer")
            /\ UNCHANGED fsVars
            /\ UNCHANGED <<bundle, lastCap, child, childLog, execSnap, nsJoined,
                           uidOfUser, gidOfUser, homeDir, artifacts>>

\* line 101: "Successfully activated SSH in container"
Finish ==
    /\ outcome = "running"
    /\ hpc > Len(StartOrder)
    /\ outcome' = "success"
    /\ UNCHANGED <<keyVars, fsVars, abiVars, cliVars, hpc, hookLog, bundle, lastCap, child, childLog, execSnap,
                   nsJoined, uidOfUser, gidOfUser, homeDir, artifacts>>

NextDaemon ==
    \/ ParseState
    \/ EnterNamespaces
    \/ parseConfigJSONOfBundle
    \/ GetUsername
    \/ getSshKeysDirInContainer
    \/ copyDropbearIntoContainer
    \/ setupSshKeysDirInContainer
    \/ copySshKeysIntoContainer
    \/ patchPasswdIfNecessary
    \/ createEnvironmentFile
    \/ createEtcProfileModule
    \/ Fork
    \/ Chroot
    \/ CapDrop
    \/ Setgroups
    \/ Setresgid
    \/ Setresuid
    \/ SetNoNewPrivs
    \/ Exec
    \/ DropbearExit
    \/ Wait
    \/ createSshExecutableInContainer
    \/ Finish

\* the keystore as the first process finds it; start-ssh-daemon is not running
InitKeys ==
    /\ ksDir \in BOOLEAN
    /\ ks \in [Entries -> {"absent", "complete"}]
    /\ (~ksDir => ks = EmptyKs)
    /\ lockfile = FALSE
    /\ holds = [p \in Procs |-> FALSE]
    /\ cmd \in [Procs -> {"generate", "generate_overwrite", "check"}]
    /\ pc = [p \in Procs |-> 1]
    /\ result = [p \in Procs |-> "running"]
    /\ seen = [p \in Procs |-> EmptyKs]
    /\ retKs = [p \in Procs |-> EmptyKs]
    /\ keygenCalls = [p \in Procs |-> 0]
    /\ mutLog = {}
    /\ ks0 = ks
    /\ hpc = 1
    /\ outcome = "idle"
    /\ hookLog = <<>>
    /\ bundle = [uid |-> 1000, gid |-> 1000]
    /\ lastCap = 0
    /\ child = NoChild
    /\ childLog = <<>>
    /\ execSnap = NoSnap
    /\ nsJoined = FALSE
    /\ uidOfUser = -1
    /\ gidOfUser = -1
    /\ homeDir = ""
    /\ artifacts = {}
    /\ serverPort = 22
    /\ rootfsDir = NoPath
    /\ sshKeysDirInContainer = NoPath
    /\ passwd0 = <<>>
    /\ passwd = <<>>
    /\ shellsInRootfs = {}
    /\ sshMount = [hostBind |-> FALSE, mounted |-> FALSE]
    /\ writes = {}
    /\ dropbearCommand = <<>>
    /\ shim = <<>>
    /\ fileModes = [f \in ModeFiles |-> {}]
    /\ sshBefore = "unknown"
    /\ target = <<0, 0, 0>>
    /\ candidates = <<>>
    /\ picked = [st |-> "none"]
    /\ args = [o \in Objs |-> <<nullptr>>]
    /\ pushed = [o \in Objs |-> <<>>]
    /\ assigned = [done |-> FALSE]
    /\ crashed = FALSE

\* the hook as SshHook::startSshDaemon starts; no key store process runs
InitDaemon ==
    /\ hpc = 1
    /\ outcome = "running"
    /\ hookLog = <<>>
    /\ bundle \in [uid : UIDs, gid : GIDs]
    /\ lastCap \in 0..MaxCap
    /\ child = NoChild
    /\ childLog = <<>>
    /\ execSnap = NoSnap
    /\ nsJoined = FALSE
    /\ uidOfUser = -1
    /\ gidOfUser = -1
    /\ homeDir \in Homes
    /\ artifacts = {}
    /\ serverPort \in Ports
    /\ rootfsDir = NoPath
    /\ sshKeysDirInContainer = NoPath
    /\ passwd0 = <<>>
    /\ passwd = <<>>
    /\ shellsInRootfs = {}
    /\ sshMount = [hostBind |-> FALSE, mounted |-> FALSE]
    /\ writes = {}
    /\ dropbearCommand = <<>>
    /\ shim = <<>>
    /\ fileModes = [f \in ModeFiles |-> {}]
    /\ sshBefore = "unknown"
    /\ target = <<0, 0, 0>>
    /\ candidates = <<>>
    /\ picked = [st |-> "none"]
    /\ args = [o \in Objs |-> <<nullptr>>]
    /\ pushed = [o \in Objs |-> <<>>]
    /\ assigned = [done |-> FALSE]
    /\ crashed = FALSE
    /\ ksDir = FALSE
    /\ ks = EmptyKs
    /\ lockfile = FALSE
    /\ holds = [p \in Procs |-> FALSE]
    /\ cmd = [p \in Procs |-> "check"]
    /\ pc = [p \in Procs |-> Done]
    /\ result = [p \in Procs |-> "running"]
    /\ seen = [p \in Procs |-> EmptyKs]
    /\ retKs = [p \in Procs |-> EmptyKs]
    /\ keygenCalls = [p \in Procs |-> 0]
    /\ mutLog = {}
    /\ ks0 = EmptyKs

SpecKeys == InitKeys /\ [][NextKeys]_vars

\* the statements of process p
ProcStep(p) ==
    \/ CreateKeysDir(p)
    \/ AcquireLock(p)
    \/ CheckKeys(p)
    \/ RemoveAll(p)
    \/ RecreateKeysDir(p)
    \/ KeygenHost(p)
    \/ KeygenUser(p)
    \/ AuthOpen(p)
    \/ AuthWrite(p)
    \/ GenReturn(p)
    \/ checkUserHasSshKeys(p)

\* every process is scheduled: a process that can take its next statement
\* eventually takes it; a process waiting for the lock file takes it once it
\* stays free
SpecKeysFair == SpecKeys /\ \A p \in Procs : WF_vars(ProcStep(p))

SpecDaemon == InitDaemon /\ [][NextDaemon]_vars

(***************************************************************************)
(* SharedLibrary::pickNewestAbiCompatibleLibrary                           *)
(***************************************************************************)

\* ABI version numbers of the libraries considered
Majors == {1, 2}
Minors == {0, 1}
Patches == {0, 1, 2}

\* lines 447-461: the library whose resolved ABI is abi; its real name is the
\* linker name followed by the ABI version
SharedLibrary(abi) ==
    [linkerName |-> "libmpi.so", major |-> abi[1], minor |-> abi[2],
     patch |-> abi[3], realName |-> <<"libmpi.so">> \o abi]

Libs == {SharedLibrary(<<ma, mi, pa>>) : ma \in Majors, mi \in Minors, pa \in Patches}

CandidateLists == UNION {[1..n -> Libs] : n \in 0..MaxCand}

IsExactMatchNever(t, c) == FALSE

\* line 490
IsExactMatch(t, c) == c.realName = t.realName

RECURSIVE OldestFrom(_, _, _, _)
\* lines 488-501: the first loop from candidate i on; it returns at an exact
\* match, else it ends with `oldest`
OldestFrom(t, cs, i, oldest) ==
    IF i > Len(cs) THEN [exact |-> FALSE, lib |-> oldest]
    ELSE LET c == cs[i]
         IN IF IsExactMatch(t, c) THEN [exact |-> TRUE, lib |-> c]
            ELSE IF /\ \/ c.major < oldest.major
                       \/ c.major = oldest.major /\ c.minor <= oldest.minor
                    /\ ~(oldest.major = t.major /\ c.major < t.major)
                 THEN OldestFrom(t, cs, i + 1, c)
                 ELSE OldestFrom(t, cs, i + 1, oldest)

RECURSIVE BestFrom(_, _, _, _)
\* lines 504-516: the second loop from candidate i on
BestFrom(t, cs, i, best) ==
    IF i > Len(cs) THEN best
    ELSE LET c == cs[i]
         IN IF /\ \/ c.major > best.major
                  \/ c.major = best.major /\ c.minor >= best.minor
               /\ c.major <= t.major
               /\ c.minor <= t.minor
               /\ ~(c.major = t.major /\ c.minor = t.minor /\ c.patch < best.patch)
            THEN BestFrom(t, cs, i + 1, c)
            ELSE BestFrom(t, cs, i + 1, best)

\* lines 478-518, for a non-empty list
pickNewestAbiCompatibleLibrary(t, cs) ==
    IF Len(cs) = 1 THEN cs[1]
    ELSE LET first == OldestFrom(t, cs, 1, cs[1])
         IN IF first.exact THEN first.lib
            ELSE BestFrom(t, cs, 1, first.lib)

\* a call of target.pickNewestAbiCompatibleLibrary(candidates); lines 480-482
\* throw on an empty list
Pick ==
    /\ picked.st = "none"
    /\ picked' = IF Len(candidates) = 0
                 THEN [st |-> "error"]
                 ELSE [st |-> "ok",
                       lib |-> pickNewestAbiCompatibleLibrary(target, candidates)]
    /\ UNCHANGED <<target, candidates>>
    /\ UNCHANGED <<keyVars, daemonVars, fsVars, cliVars>>

\* a target library and a list of candidates; neither the key store nor the
\* hook runs
InitAbi ==
    /\ target \in Libs
    /\ candidates \in CandidateLists
    /\ picked = [st |-> "none"]
    /\ args = [o \in Objs |-> <<nullptr>>]
    /\ pushed = [o \in Objs |-> <<>>]
    /\ assigned = [done |-> FALSE]
    /\ crashed = FALSE
    /\ hpc = 1
    /\ outcome = "idle"
    /\ hookLog = <<>>
    /\ bundle = [uid |-> 1000, gid |-> 1000]
    /\ lastCap = 0
    /\ child = NoChild
    /\ childLog = <<>>
    /\ execSnap = NoSnap
    /\ nsJoined = FALSE
    /\ uidOfUser = -1
    /\ gidOfUser = -1
    /\ homeDir = ""
    /\ artifacts = {}
    /\ serverPort = 22
    /\ rootfsDir = NoPath
    /\ sshKeysDirInContainer = NoPath
    /\ passwd0 = <<>>
    /\ passwd = <<>>
    /\ shellsInRootfs = {}
    /\ sshMount = [hostBind |-> FALSE, mounted |-> FALSE]
    /\ writes = {}
    /\ dropbearCommand = <<>>
    /\ shim = <<>>
    /\ fileModes = [f \in ModeFiles |-> {}]
    /\ sshBefore = "unknown"
    /\ ksDir = FALSE
    /\ ks = EmptyKs
    /\ lockfile = FALSE
    /\ holds = [p \in Procs |-> FALSE]
    /\ cmd = [p \in Procs |-> "check"]
    /\ pc = [p \in Procs |-> Done]
    /\ result = [p \in Procs |-> "running"]
    /\ seen = [p \in Procs |-> EmptyKs]
    /\ retKs = [p \in Procs |-> EmptyKs]
    /\ keygenCalls = [p \in Procs |-> 0]
    /\ mutLog = {}
    /\ ks0 = EmptyKs

NextAbi == Pick

SpecAbi == InitAbi /\ [][NextAbi]_vars

(***************************************************************************)
(* CLIArguments                                                            *)
(***************************************************************************)

\* lines 107-109
argc(a) == Len(a) - 1

\* lines 115-121: the range [begin(), end()), all slots but the last
Elems(a) == SubSeq(a, 1, Len(a) - 1)

\* lines 101-105: pop the terminator, push a copy of arg, push the terminator
push_back(a, arg) == Append(Append(SubSeq(a, 1, Len(a) - 1), arg), nullptr)

RECURSIVE PushAll(_, _)
\* lines 124-126 and 95-97: push_back of every pointer of a range
PushAll(a, ptrs) ==
    IF ptrs = <<>> THEN a ELSE PushAll(push_back(a, Head(ptrs)), Tail(ptrs))

\* lines 134-139
clear(a) == <<nullptr>>

\* lines 93-99: clear(), then the loop over rhs; with rhs the object itself
\* the loop runs over what clear() has left
operatorAssign(as, lhs, rhs) ==
    LET cleared == [as EXCEPT ![lhs] = clear(as[lhs])]
    IN PushAll(cleared[lhs], Elems(cleared[rhs]))

\* lines 157-161: a copy of lhs, then += rhs on the copy
operatorPlus(l, r) == PushAll(PushAll(<<nullptr>>, Elems(l)), Elems(r))

CliFrame == UNCHANGED <<keyVars, daemonVars, fsVars, abiVars>>

\* o.push_back(s)
PushBack(o, s) ==
    /\ ~crashed
    /\ argc(args[o]) < MaxArgs
    /\ args' = [args EXCEPT ![o] = push_back(@, s)]
    /\ pushed' = [pushed EXCEPT ![o] = Append(@, s)]
    /\ assigned' = [done |-> FALSE]
    /\ UNCHANGED crashed
    /\ CliFrame

\* o.clear()
Clear(o) ==
    /\ ~crashed
    /\ args' = [args EXCEPT ![o] = clear(@)]
    /\ pushed' = [pushed EXCEPT ![o] = <<>>]
    /\ assigned' = [done |-> FALSE]
    /\ UNCHANGED crashed
    /\ CliFrame

\* lines 71-75: o is constructed anew as a copy of r
CopyConstruct(o, r) ==
    /\ ~crashed
    /\ o # r
    /\ args' = [args EXCEPT ![o] = PushAll(<<nullptr>>, Elems(args[r]))]
    /\ pushed' = [pushed EXCEPT ![o] = Elems(args[r])]
    /\ assigned' = [done |-> FALSE]
    /\ UNCHANGED crashed
    /\ CliFrame

\* o = r
Assign(o, r) ==
    /\ ~crashed
    /\ args' = [args EXCEPT ![o] = operatorAssign(args, o, r)]
    /\ pushed' = [pushed EXCEPT ![o] = Elems(args'[o])]
    /\ assigned' = [done |-> TRUE, lhs |-> o, rhsBefore |-> Elems(args[r])]
    /\ UNCHANGED crashed
    /\ CliFrame

\* o += r, lines 123-128. With r the object itself and o not empty, push_back
\* changes the vector the loop's iterators point into: the loop may run over
\* the old slots unchanged, read them after they were freed, or crash.
PlusAssign(o, r) ==
    /\ ~crashed
    /\ argc(args[o]) + argc(args[r]) <= MaxArgs
    /\ IF o # r \/ Elems(args[o]) = <<>>
       THEN /\ args' = [args EXCEPT ![o] = PushAll(@, Elems(args[r]))]
            /\ UNCHANGED crashed
       ELSE \/ /\ args' = [args EXCEPT ![o] = PushAll(@, Elems(args[o]))]
               /\ UNCHANGED crashed
            \/ /\ args' = [args EXCEPT ![o] =
                              PushAll(@, [i \in 1..argc(args[o]) |-> Garbage])]
               /\ UNCHANGED crashed
            \/ /\ crashed' = TRUE
               /\ UNCHANGED args
    /\ pushed' = [pushed EXCEPT ![o] = @ \o Elems(args[r])]
    /\ assigned' = [done |-> FALSE]
    /\ CliFrame

\* o = l + r: the sum is built in a temporary, which is then assigned to o
AssignPlus(o, l, r) ==
    /\ ~crashed
    /\ argc(args[l]) + argc(args[r]) <= MaxArgs
    /\ LET sum == operatorPlus(args[l], args[r])
       IN /\ args' = [args EXCEPT ![o] = PushAll(clear(@), Elems(sum))]
          /\ pushed' = [pushed EXCEPT ![o] = Elems(args[l]) \o Elems(args[r])]
          /\ assigned' = [done |-> TRUE, lhs |-> o, rhsBefore |-> Elems(sum)]
    /\ UNCHANGED crashed
    /\ CliFrame

\* lines 67-69: every object as its default constructor leaves it; neither
\* the key store, the hook nor the library picker runs
InitCli ==
    /\ args = [o \in Objs |-> <<nullptr>>]
    /\ pushed = [o \in Objs |-> <<>>]
    /\ assigned = [done |-> FALSE]
    /\ crashed = FALSE
    /\ target = <<0, 0, 0>>
    /\ candidates = <<>>
    /\ picked = [st |-> "none"]
    /\ hpc = 1
    /\ outcome = "idle"
    /\ hookLog = <<>>
    /\ bundle = [uid |-> 1000, gid |-> 1000]
    /\ lastCap = 0
    /\ child = NoChild
    /\ childLog = <<>>
    /\ execSnap = NoSnap
    /\ nsJoined = FALSE
    /\ uidOfUser = -1
    /\ gidOfUser = -1
    /\ homeDir = ""
    /\ artifacts = {}
    /\ serverPort = 22
    /\ rootfsDir = NoPath
    /\ sshKeysDirInContainer = NoPath
    /\ passwd0 = <<>>
    /\ passwd = <<>>
    /\ shellsInRootfs = {}
    /\ sshMount = [hostBind |-> FALSE, mounted |-> FALSE]
    /\ writes = {}
    /\ dropbearCommand = <<>>
    /\ shim = <<>>
    /\ fileModes = [f \in ModeFiles |-> {}]
    /\ sshBefore = "unknown"
    /\ ksDir = FALSE
    /\ ks = EmptyKs
    /\ lockfile = FALSE
    /\ holds = [p \in Procs |-> FALSE]
    /\ cmd = [p \in Procs |-> "check"]
    /\ pc = [p \in Procs |-> Done]
    /\ result = [p \in Procs |-> "running"]
    /\ seen = [p \in Procs |-> EmptyKs]
    /\ retKs = [p \in Procs |-> EmptyKs]
    /\ keygenCalls = [p \in Procs |-> 0]
    /\ mutLog = {}
    /\ ks0 = EmptyKs

NextCli ==
    \E o \in Objs, r \in Objs :
        \/ \E s \in Strs : PushBack(o, s)
        \/ Clear(o)
        \/ CopyConstruct(o, r)
        \/ Assign(o, r)
        \/ PlusAssign(o, r)
        \/ \E l \in Objs : AssignPlus(o, l, r)

SpecCli == InitCli /\ [][NextCli]_vars

(***************************************************************************)
(* Properties of start-ssh-daemon (checked under SpecDaemon)               *)
(***************************************************************************)
IsPrefix(a, b) == Len(a) <= Len(b) /\ a = SubSeq(b, 1, Len(a))

Range(q) == {q[i] : i \in 1..Len(q)}

\* the order section 4.D prescribes for the pre-exec actions
SixPreExecActions ==
    <<"chroot", "capDrop", "setgroups", "setresgid", "setresuid", "noNewPrivs">>

\* C1: the child performs chroot, capability drop, setgroups, setresgid,
\* setresuid, no_new_privs in exactly this order (so the GID transition always
\* precedes the UID transition), and dropbear is exec'd only after all six.
C1_PreExecOrder ==
    /\ IsPrefix(childLog, SixPreExecActions)
    /\ execSnap.taken => childLog = SixPreExecActions

C1_Witness == execSnap.taken /\ Len(childLog) = 6 /\ child.st = "exec"

\* C2: whenever dropbear is exec'd, the child's real/effective/saved UID are the
\* bundle's uid, its real/effective/saved GID the bundle's gid, it has no
\* supplementary groups, an empty capability bounding set and no_new_privs = 1.
C2_ExecCredentials ==
    execSnap.taken =>
        /\ execSnap.uid = <<bundle.uid, bundle.uid, bundle.uid>>
        /\ execSnap.gid = <<bundle.gid, bundle.gid, bundle.gid>>
        /\ execSnap.groups = {}
        /\ execSnap.caps = {}
        /\ execSnap.nnp = 1

C2_Witness ==
    /\ execSnap.taken
    /\ lastCap = MaxCap
    /\ bundle.uid # bundle.gid
    /\ execSnap.uid[1] = bundle.uid

\* C3: when a pre-exec step fails (a capability drop only with an error other
\* than EINVAL), no later pre-exec step runs, dropbear is never exec'd, and the
\* hook does not report successful activation: it stays in
\* startSshDaemonInContainer until it ends with an error.
C3_PreExecFailureIsFatal ==
    child.failedAt # "none" =>
        /\ ~execSnap.taken
        /\ child.st = "exited"
        /\ child.status # 0
        /\ \E k \in 1..Len(SixPreExecActions) :
              /\ SixPreExecActions[k] = child.failedAt
              /\ childLog = SubSeq(SixPreExecActions, 1, k - 1)
        /\ outcome \in {"running", "error"}
        /\ "startSshDaemonInContainer" \notin Range(hookLog)
        /\ "ssh_shim" \notin artifacts

C3_Witness ==
    /\ child.failedAt = "setresgid"
    /\ outcome = "error"
    /\ childLog = <<"chroot", "capDrop", "setgroups">>

\* the injector steps 2-9 of section 4.C, in the order the section gives them
Section4CSteps ==
    <<"getSshKeysDirInContainer", "copyDropbearIntoContainer",
      "setupSshKeysDirInContainer", "copySshKeysIntoContainer",
      "patchPasswdIfNecessary", "createEnvironmentFile",
      "createEtcProfileModule", "createSshExecutableInContainer">>

IsInjectorStep(s) == s \in Range(Section4CSteps)

\* C4: start-ssh-daemon performs the injector steps in the order of section
\* 4.C and launches the daemon only after all of them; in particular the
\* /usr/bin/ssh shim is written before the daemon is started.
C4_InjectorBeforeDaemon ==
    /\ IsPrefix(SelectSeq(hookLog, IsInjectorStep), Section4CSteps)
    /\ child.st # "none" =>
          /\ SelectSeq(hookLog, IsInjectorStep) = Section4CSteps
          /\ "ssh_shim" \in artifacts

\* C5: the stdin state is parsed and the bundle's config.json is read (uid and
\* gid derived) before the process joins any namespace of the container.
C5_ReaderBeforeNamespaces ==
    nsJoined =>
        /\ "parseStateOfContainerFromStdin" \in Range(hookLog)
        /\ "parseConfigJSONOfBundle" \in Range(hookLog)
        /\ uidOfUser = bundle.uid
        /\ gidOfUser = bundle.gid

\* C11: when the home recorded for uid in the container's /etc/passwd is empty
\* or /nonexistent, start-ssh-daemon ends with a non-zero exit and has changed
\* nothing in the rootfs beyond, at most, the copy of the Dropbear binaries: no
\* overlay mount, no key copied, /etc/passwd not rewritten, no environment file,
\* no profile.d script, no ssh shim, no daemon.
C11_InvalidHomeRejected ==
    homeDir \in {"", "/nonexistent"} =>
        /\ outcome # "success"
        /\ "getSshKeysDirInContainer" \notin Range(hookLog)
        /\ artifacts \subseteq {"dropbear_bin"}
        /\ ~sshMount.mounted
        /\ writes = {}
        /\ passwd = passwd0
        /\ shim = <<>>
        /\ child.st = "none"

C11_Witness ==
    /\ homeDir = "/nonexistent"
    /\ outcome = "error"
    /\ hookLog = <<"parseStateOfContainerFromStdin", "enterNamespacesOfProcess",
                   "parseConfigJSONOfBundle", "getUsername">>

\* C14: for every SERVER_PORT the /usr/bin/ssh shim has two lines, its
\* command line is the dbclient path, -y, -p, the port, and a final "$@", and
\* the port equals the one in the daemon's -p argument.
C14_ShimForwardsQuotedArgs ==
    "ssh_shim" \in artifacts =>
        /\ Len(shim) = 2
        /\ shim[1] = <<"#!/bin/sh">>
        /\ shim[2] = <<Join(dropbearRelativeDirInContainer, Rel(<<"bin", "dbclient">>)),
                       "-y", "-p", to_string(serverPort), "\"$@\"">>
        /\ shim[2][4] = dropbearCommand[6]

\* the value getSshKeysDirInContainer has for a valid home, seen from inside
\* the container
KeysDirInsideContainer == Join(HomePath(homeDir), Rel(<<".ssh">>))

\* C15: the argv handed to exec is [/opt/oci-hooks/dropbear/bin/dropbear, -E,
\* -r, K/dropbear_ecdsa_host_key, -p, SERVER_PORT] with K the container home
\* joined with .ssh, relative to the new root and without the rootfs_dir
\* prefix, for absolute and bundle-relative root.path.
C15_DropbearArgv ==
    LET expected ==
            <<[abs |-> TRUE, comps |-> <<"opt", "oci-hooks", "dropbear", "bin", "dropbear">>],
              "-E", "-r",
              Join(KeysDirInsideContainer, Rel(<<"dropbear_ecdsa_host_key">>)),
              "-p", to_string(serverPort)>>
    IN /\ child.st # "none" => dropbearCommand = expected
       /\ execSnap.taken =>
            /\ execSnap.argv = expected
            /\ execSnap.argv[4].abs
            /\ ~IsPrefix(rootfsDir.comps, execSnap.argv[4].comps)

C15_Witness ==
    /\ execSnap.taken
    /\ rootfsDir = [abs |-> TRUE, comps |-> <<"run", "bundle", "rootfs">>]
    /\ homeDir = "/home/alice"
    /\ serverPort = 2222
    /\ execSnap.argv[4].comps = <<"home", "alice", ".ssh", "dropbear_ecdsa_host_key">>
    /\ execSnap.argv[6] = <<2, 2, 2, 2>>

\* C16: the parent waits for the child's exit status; a non-zero status makes
\* the hook fail and success is never reported, only a zero status lets the
\* hook go on to its last statement and report successful activation.
C16_ExitStatusDecides ==
    /\ "startSshDaemonInContainer" \in Range(hookLog) =>
            child.st = "exited" /\ child.status = 0
    /\ outcome = "success" => child.st = "exited" /\ child.status = 0
    /\ (child.st = "exited" /\ child.status # 0) =>
            /\ outcome # "success"
            /\ "createSshExecutableInContainer" \notin Range(hookLog)
            /\ "ssh_shim" \notin artifacts

C16_Witness ==
    /\ execSnap.taken
    /\ child.st = "exited" /\ child.status # 0
    /\ outcome = "error"

\* C17: with valid capability indices 0..N the drop loop starts at 0 and
\* terminates; when it ends normally it has dropped every index 0..N exactly
\* once, in order, and stopped at the first invalid index; a failure with
\* another errno ends the child with an error, not normally.
C17_CapDropLoop ==
    /\ child.st # "none" =>
          /\ child.dropped = [i \in 1..child.capIdx |-> i - 1]
          /\ child.capIdx <= lastCap + 1
          /\ child.caps = (0..lastCap) \ Range(child.dropped)
    /\ "capDrop" \in Range(childLog) =>
          /\ child.dropped = [i \in 1..(lastCap + 1) |-> i - 1]
          /\ child.capIdx = lastCap + 1
          /\ child.caps = {}
    /\ child.failedAt = "capDrop" =>
          /\ child.st = "exited" /\ child.status # 0
          /\ "capDrop" \notin Range(childLog)
          /\ ~execSnap.taken

C17_Witness ==
    /\ lastCap = MaxCap
    /\ "capDrop" \in Range(childLog)
    /\ child.dropped = [i \in 1..(MaxCap + 1) |-> i - 1]

\* the candidates with the target's major version
SameMajor == {i \in 1..Len(candidates) : candidates[i].major = target.major}

\* some candidate has the target's real name
HasExactMatch == \E i \in 1..Len(candidates) : candidates[i].realName = target.realName

\* the candidates with the target's major and a minor not above the target's
FullAbiCompatible ==
    {i \in SameMajor : candidates[i].minor <= target.minor}

\* C18: pickNewestAbiCompatibleLibrary never downgrades major: when some
\* candidate has the target's major version, the returned library's major
\* version is not lower than the target's.
C18_NeverDowngradeMajor ==
    (picked.st = "ok" /\ SameMajor # {}) => picked.lib.major >= target.major

\* C19: when some candidate has the target's real name, the returned library
\* has that real name, whatever the other candidates and wherever the match
\* is in the list.
C19_ExactMatchPreferred ==
    (picked.st = "ok" /\ HasExactMatch) => picked.lib.realName = target.realName

C19_Witness ==
    /\ picked.st = "ok"
    /\ Len(candidates) = 3
    /\ candidates[3].realName = target.realName
    /\ candidates[1].realName # target.realName
    /\ candidates[2].realName # target.realName
    /\ candidates[1].major = target.major /\ candidates[1].minor > target.minor
    /\ picked.lib = candidates[3]

\* C20: without an exact match and with some candidate of the target's major
\* and a minor <= the target's, the returned library has the target's major
\* and the greatest such minor.
C20_NewestCompatibleMinor ==
    (picked.st = "ok" /\ ~HasExactMatch /\ FullAbiCompatible # {}) =>
        /\ picked.lib.major = target.major
        /\ picked.lib.minor <= target.minor
        /\ \A i \in FullAbiCompatible : candidates[i].minor <= picked.lib.minor

\* the candidates with the target's major and minor
SameMajorMinor ==
    {i \in SameMajor : candidates[i].minor = target.minor}

\* C21: pickNewestAbiCompatibleLibrary never downgrades patch within the same
\* major.minor: when the returned library has the target's major and minor,
\* no candidate with that major and minor has a strictly greater patch.
C21_NeverDowngradePatch ==
    (picked.st = "ok" /\ picked.lib.major = target.major
                      /\ picked.lib.minor = target.minor) =>
        \A i \in SameMajorMinor : candidates[i].patch <= picked.lib.patch

\* C21, for the calls that no exact match settles (an exact match is returned
\* whatever its patch): pickNewestAbiCompatibleLibrary never downgrades patch
\* within the same major.minor; when the returned library has the target's
\* major and minor, no candidate with that major and minor has a strictly
\* greater patch.
C21_NoPatchDowngradeWithoutExactMatch ==
    (picked.st = "ok" /\ ~HasExactMatch
                      /\ picked.lib.major = target.major
                      /\ picked.lib.minor = target.minor) =>
        \A i \in SameMajorMinor : candidates[i].patch <= picked.lib.patch

\* the octal digit of one class (u, g, o) of a set of permission bits
OctalDigit(bits, cls) ==
    (IF <<cls, "r">> \in bits THEN 4 ELSE 0)
    + (IF <<cls, "w">> \in bits THEN 2 ELSE 0)
    + (IF <<cls, "x">> \in bits THEN 1 ELSE 0)

\* a mode as its three octal digits
Octal(bits) == <<OctalDigit(bits, "u"), OctalDigit(bits, "g"), OctalDigit(bits, "o")>>

\* C22: after a successful start-ssh-daemon,
\* /opt/oci-hooks/dropbear/environment has mode 0755,
\* /etc/profile.d/ssh-hook.sh has mode 0644, and /usr/bin/ssh has mode 0755
\* and is the shim whatever was at that path before.
C22_ArtifactModes ==
    outcome = "success" =>
        /\ Octal(fileModes["/opt/oci-hooks/dropbear/environment"]) = <<7, 5, 5>>
        /\ Octal(fileModes["/etc/profile.d/ssh-hook.sh"]) = <<6, 4, 4>>
        /\ Octal(fileModes["/usr/bin/ssh"]) = <<7, 5, 5>>
        /\ sshBefore \in {"absent", "file", "directory"}
        /\ shim = ShimScript

\* C23: after any sequence of CLIArguments operations, the right operand
\* being the object itself included, every array is NUL-terminated (its last
\* slot is the null pointer, no earlier slot is), argc() is the number of
\* arguments pushed since the last clear and the array holds them in their
\* insertion order, and an assignment a = b has left a with the value b had.
C23_ArgvWellFormed ==
    /\ \A o \in Objs :
          /\ args[o][Len(args[o])] = nullptr
          /\ \A i \in 1..(Len(args[o]) - 1) : args[o][i] # nullptr
          /\ argc(args[o]) = Len(pushed[o])
          /\ Elems(args[o]) = pushed[o]
    /\ assigned.done => Elems(args[assigned.lhs]) = assigned.rhsBefore

\* N generate-ssh-keys processes without --overwrite on an empty key store
RaceOnEmptyKeystore ==
    /\ \A p \in Procs : cmd[p] = "generate"
    /\ \A f \in Entries : ks0[f] = "absent"

AllDone == \A p \in Procs : pc[p] = Done

\* the processes that went past the test of lines 46-52
Generators == {p \in Procs : keygenCalls[p] > 0 \/ \E m \in mutLog :
                  m.proc = p /\ m.op \in {"removeAll", "recreateKeysDir"}}

\* what C24 says of the states of a race
RaceSafety ==
    /\ Cardinality(Generators) <= 1
    /\ \A p \in Procs :
          /\ pc[p] = Done =>
                /\ result[p] = "success"
                /\ userHasSshKeys(retKs[p])
                /\ p \notin Generators => userHasSshKeys(seen[p])
                /\ p \in Generators => keygenCalls[p] = Len(expectedKeyFiles)
          /\ pc[p] = Done => ~holds[p]
    /\ lockfile <=> \E p \in Procs : holds[p]
    /\ AllDone => Cardinality(Generators) = 1 /\ ~lockfile

DistinctVersions ==
    \A i, j \in 1..Len(candidates) :
        i # j => candidates[i].realName # candidates[j].realName

\* the lists that hold the candidates in another order
Reorderings ==
    LET n == Len(candidates)
    IN {[i \in 1..n |-> candidates[f[i]]] :
           f \in {g \in [1..n -> 1..n] : \A i, j \in 1..n : i # j => g[i] # g[j]}}

\* C25: the result of pickNewestAbiCompatibleLibrary depends on the set of
\* candidates and the target only: with pairwise distinct versions every
\* reordering of the list gives the same library; for a non-empty list the
\* result is one of the candidates, and an empty list yields an error.
C25_OrderIndependent ==
    /\ (picked.st = "ok" /\ DistinctVersions) =>
           \A cs \in Reorderings :
               pickNewestAbiCompatibleLibrary(target, cs) = picked.lib
    /\ picked.st = "ok" => picked.lib \in Range(candidates)
    /\ picked.st = "error" <=> (picked.st # "none" /\ candidates = <<>>)

\* C13: with the host's home bind-mounted into the container, everything
\* start-ssh-daemon creates or writes under ~/.ssh (the .ssh directory and the
\* three key files) is written after the overlay is mounted and lands in
\* ssh-upper, never in the directory underneath.
C13_HostHomeNeverModified ==
    sshMount.hostBind => \A w \in writes : w.layer = "upper"

\* C12: patchPasswdIfNecessary maps /etc/passwd line by line: a line whose
\* shell does not exist under rootfs_dir gets the shell /bin/sh and is
\* otherwise the same, a line whose shell exists (or that names none) is
\* unchanged; number and order of the lines are kept, so a file whose shells
\* all exist is written back as it was.
C12_PasswdPatch ==
    "passwd" \in artifacts =>
        /\ Len(passwd) = Len(passwd0)
        /\ \A i \in 1..Len(passwd0) :
              IF Len(passwd0[i]) = 7 /\ passwd0[i][7] \notin shellsInRootfs
              THEN passwd[i] = [passwd0[i] EXCEPT ![7] = "/bin/sh"]
              ELSE passwd[i] = passwd0[i]
        /\ (\A i \in 1..Len(passwd0) :
               Len(passwd0[i]) = 7 => passwd0[i][7] \in shellsInRootfs)
              => passwd = passwd0

C12_Witness ==
    /\ "passwd" \in artifacts
    /\ Len(passwd0) = 2
    /\ shellsInRootfs = {"/bin/bash"}
    /\ Len(passwd0[1]) = 7 /\ Len(passwd0[2]) = 7
    /\ passwd0[1][7] = "/bin/zsh" /\ passwd[1][7] = "/bin/sh"
    /\ passwd0[2][7] = "/bin/bash" /\ passwd[2] = passwd0[2]

(***************************************************************************)
(* Properties of the host key store (checked under SpecKeys)               *)
(***************************************************************************)
KeyFileSet == {"dropbear_ecdsa_host_key", "id_dropbear", "authorized_keys"}

Present(k) == {e \in DOMAIN k : k[e] # "absent"}

MutualExclusion == Cardinality({p \in Procs : holds[p]}) <= 1

\* C6 as claimed: at most one process holds the keystore lock, and every
\* mutation of the keystore directory by generateSshKeys, directory creation
\* included, is done by a process that holds the lock.
C6_AllMutationsUnderLock ==
    /\ MutualExclusion
    /\ \A m \in mutLog : m.locked

\* C6 amended: at most one process holds the keystore lock, and every mutation
\* of the keystore directory by generateSshKeys other than the initial
\* create-if-absent of the directory (which precedes the lock) is done by a
\* process that holds the lock.
C6_MutationsAfterLockUnderLock ==
    /\ MutualExclusion
    /\ \A m \in mutLog : m.op # "createKeysDir" => m.locked

C6_Witness ==
    \E p, q \in Procs :
        /\ p # q
        /\ holds[p]
        /\ [proc |-> p, op |-> "keygenUser", locked |-> TRUE] \in mutLog
        /\ IsGen(q) /\ pc[q] = 2 /\ result[q] = "running"

AllOrNone(k) ==
    \/ \A f \in KeyFileSet : k[f] = "complete"
    \/ \A f \in KeyFileSet : k[f] = "absent"

\* C7: a keystore that starts with all three key files or none of them holds,
\* in every state a lock-free reader can observe, all three complete files or
\* none of them: never one or two of them, never a partially written file.
C7_AllOrNoneObservable == AllOrNone(ks0) => AllOrNone(ks)

\* C8: a generate-ssh-keys run without --overwrite that finds all three key
\* files returns success, leaves the keystore as it found it, invokes no key
\* generator and does no mutation after taking the lock; for every such run.
C8_NoOverwriteKeepsKeys ==
    \A p \in Procs :
        (cmd[p] = "generate" /\ KeyFileSet \subseteq Present(seen[p])) =>
            /\ result[p] = "success"
            /\ retKs[p] = seen[p]
            /\ keygenCalls[p] = 0
            /\ \A m \in mutLog : m.proc = p => m.op = "createKeysDir"

C8_Witness ==
    /\ KeyFileSet \subseteq Present(ks0)
    /\ ks = ks0
    /\ mutLog = {}
    /\ \A p \in Procs : cmd[p] = "generate" /\ result[p] = "success"

\* C9 as claimed: after any successful return of generate-ssh-keys the
\* keystore holds exactly the three key files and no other entry.
C9_ExactlyThreeFiles ==
    \A p \in Procs :
        (IsGen(p) /\ result[p] = "success") => Present(retKs[p]) = KeyFileSet

\* C9 amended: after any successful return of generate-ssh-keys the keystore
\* holds the three key files, completely written; it holds no other entry when
\* the run regenerated the keys (--overwrite, or a key file was missing),
\* while a run that returns early because the keys exist leaves the entries it
\* found in place.
C9_ThreeFilesAfterSuccess ==
    \A p \in Procs :
        (IsGen(p) /\ result[p] = "success") =>
            /\ \A f \in KeyFileSet : retKs[p][f] = "complete"
            /\ (cmd[p] = "generate_overwrite" \/ ~(KeyFileSet \subseteq Present(seen[p])))
                  => Present(retKs[p]) = KeyFileSet
            /\ (cmd[p] = "generate" /\ KeyFileSet \subseteq Present(seen[p]))
                  => retKs[p] = seen[p]

C9_Witness ==
    \E p \in Procs :
        /\ cmd[p] = "generate_overwrite"
        /\ result[p] = "success"
        /\ OtherEntry \in Present(ks0)
        /\ Present(retKs[p]) = KeyFileSet

\* C10: check-user-has-ssh-keys exits with code zero exactly when all three
\* key files exist, exits non-zero for every other combination, and leaves the
\* keystore as it found it.
C10_CheckExitCode ==
    \A p \in Procs :
        (cmd[p] = "check" /\ result[p] # "running") =>
            /\ result[p] = "success" <=> KeyFileSet \subseteq Present(seen[p])
            /\ result[p] = "exit_failure" <=> ~(KeyFileSet \subseteq Present(seen[p]))
            /\ retKs[p] = seen[p]
            /\ \A m \in mutLog : m.proc # p

C10_Witness ==
    \E p \in Procs :
        /\ cmd[p] = "check" /\ result[p] = "exit_failure"
        /\ Present(seen[p]) \cap KeyFileSet = {"dropbear_ecdsa_host_key", "id_dropbear"}

====
